---- MODULE Spec2Model ----
(***************************************************************************)
(* Model of the notebook aisp/nb4_cross_validation.ipynb: the helper       *)
(* rate_accuracy, the cells that call it, the hold-out split and the grid  *)
(* search.  The scikit-learn / pandas routines the notebook calls are      *)
(* modelled by the algorithm the library documents for them; the random    *)
(* generator and the classifier's predictions are inputs.                  *)
(***************************************************************************)
EXTENDS Integers, Sequences, FiniteSets, TLC

VARIABLES
    file,         \* content of ../datasets/iris.csv (labels per row) or NoFile
    rng52,        \* which generator RandomState(52) is (fixed, unknown)
    np_random,    \* state of numpy's global generator (random_state=None)
    pc,           \* next notebook step to run
    exc,          \* exception that stopped the run, or "none"
    iris,         \* the loaded data frame
    x_iris,       \* feature rows
    y_iris,       \* label rows
    stdout,       \* printed lines
    calls,        \* record of every rate_accuracy invocation, in order
    x_train, x_test, y_train, y_test,
    grid_search,  \* the GridSearchCV object
    best_out,     \* displayed value of grid_search.best_params_
    score_out,    \* displayed value of grid_search.score(x_test, y_test)
    executed      \* names of the steps that have run, in order

vars == <<file, rng52, np_random, pc, exc, iris, x_iris, y_iris, stdout, calls,
          x_train, x_test, y_train, y_test, grid_search, best_out,
          score_out, executed>>

----------------------------------------------------------------------------
(* Bounds *)

MaxPerClass == 50    \* largest per-class row count of a notebook data file
MaxN        == 4     \* longest data file of the interactive session
MaxSplits   == 3     \* largest n_splits of the interactive session
MaxCalls    == 3     \* rate_accuracy calls of the interactive session
MaxRng      == 6     \* number of generators considered
MaxStart    == 2     \* number of initial states of the global generator
MaxWrong    == 1     \* most samples a fitted classifier mispredicts

(* Program constants *)

RANDOM_STATE == 52
NoFile == [exists |-> FALSE, labels |-> <<>>]   \* no file at the path
None   == "None"     \* Python's None, where the other values are strings
NoSeed == -1         \* Python's None, where the other values are integers

----------------------------------------------------------------------------
(* Arithmetic and sequence helpers *)

Min(a, b) == IF a <= b THEN a ELSE b

CeilDiv(a, b) == (a + b - 1) \div b

RECURSIVE Gcd(_, _)
Gcd(a, b) == IF b = 0 THEN a ELSE Gcd(b, a % b)

Lcm(a, b) == (a \div Gcd(a, b)) * b

RECURSIVE SumSeq(_)
SumSeq(s) == IF s = <<>> THEN 0 ELSE Head(s) + SumSeq(Tail(s))

RECURSIVE LcmSeq(_)
LcmSeq(s) == IF s = <<>> THEN 1 ELSE Lcm(Head(s), LcmSeq(Tail(s)))

Range(s) == {s[i] : i \in 1..Len(s)}

RemoveAt(s, i) == SubSeq(s, 1, i - 1) \o SubSeq(s, i + 1, Len(s))

\* the sequence f[1], ..., f[n], each element computed once
RECURSIVE SeqFromTo(_, _, _)
SeqFromTo(f, lo, hi) ==
    IF lo > hi THEN <<>>
    ELSE IF lo = hi THEN <<f[lo]>>
    ELSE LET mid == (lo + hi) \div 2
         IN  SeqFromTo(f, lo, mid) \o SeqFromTo(f, mid + 1, hi)

ToSeq(f, n) == SeqFromTo(f, 1, n)

Arange(n) == ToSeq([i \in 1..n |-> i - 1], n)

----------------------------------------------------------------------------
(* The random generator.  numpy's generator is a deterministic function of *)
(* its seed; which function is not known here, so a generator is an index  *)
(* g, and the j-th permutation it draws for a length L is PermOf(g+j, L).  *)
(* A seeded generator always starts from the same index; an unseeded one   *)
(* (random_state=None) starts from an index drawn at the call.             *)

RngIds == 0..(MaxRng - 1)

\* the pool in the order the digits of r choose its elements (the digit 0
\* takes the first that is left, so r = 0 leaves the pool as it is)
RECURSIVE Pick(_, _)
Pick(pool, r) ==
    IF pool = <<>> \/ r = 0 THEN pool
    ELSE LET d == (r % Len(pool)) + 1
         IN  <<pool[d]>> \o Pick(RemoveAt(pool, d), r \div Len(pool))

RECURSIVE StrideFrom(_, _)
StrideFrom(L, s) == IF Gcd(s, L) = 1 THEN s ELSE StrideFrom(L, s + 1)

Stride(L) == IF L <= 2 THEN 1 ELSE StrideFrom(L, 2)

Strided(p, s, L) == ToSeq([i \in 1..L |-> (p[i] * s) % L], L)

\* a permutation of 0..L-1, as a sequence of length L
PermOf(g, L) == Strided(Pick(Arange(L), g), Stride(L), L)

\* numpy shuffle / take: element i of the result is a[p[i]]
Take(a, p) == ToSeq([i \in 1..Len(p) |-> a[p[i] + 1]], Len(p))

----------------------------------------------------------------------------
(* Splitter construction: the keyword arguments each class accepts *)

Unset == "unset"     \* a keyword argument that is not passed

SplitterClasses == {"KFold", "StratifiedKFold", "StratifiedShuffleSplit"}

\* validator(n_splits=.., [shuffle=.., random_state=..]): the constructed
\* splitter, or the exception raised; random_state defaults to None
Construct(cls, n_splits, shuffle, random_state) ==
    IF cls = "StratifiedShuffleSplit"
    THEN IF shuffle # Unset
         THEN [raised |-> "TypeError"]
         ELSE [raised |-> "none", cls |-> cls, n_splits |-> n_splits,
               shuffle |-> FALSE, random_state |-> random_state]
    ELSE IF n_splits <= 1
         THEN [raised |-> "ValueError"]
         ELSE [raised |-> "none", cls |-> cls, n_splits |-> n_splits,
               shuffle |-> (shuffle = "True"),
               random_state |-> random_state]

\* the generator a splitter draws from: the seeded one, or the one the
\* call happened to get
GenOf(splitter, seeded, g) ==
    IF splitter.random_state = NoSeed THEN g ELSE seeded

\* one iteration of a splitter over n samples: the test indices and the rest
TrainTest(n, test) == [train |-> (0..(n - 1)) \ test, test |-> test]

----------------------------------------------------------------------------
(* KFold *)

FoldSize(n, k, i) == (n \div k) + (IF i <= n % k THEN 1 ELSE 0)

RECURSIVE FoldStart(_, _, _)
FoldStart(n, k, i) ==
    IF i = 1 THEN 0 ELSE FoldStart(n, k, i - 1) + FoldSize(n, k, i - 1)

\* indices[start : start + size]
Slice(indices, start, size) ==
    {indices[j] : j \in (start + 1)..(start + size)}

\* consecutive slices of the (shuffled) index array
KFoldFolds(n, k, indices) ==
    ToSeq([i \in 1..k |->
             TrainTest(n, Slice(indices, FoldStart(n, k, i), FoldSize(n, k, i)))],
          k)

KFoldSplit(n, k, shuffle, gen) ==
    IF k > n THEN [raised |-> "ValueError", folds |-> <<>>]
    ELSE [raised |-> "none",
          folds |-> KFoldFolds(n, k, IF shuffle
                                     THEN Take(Arange(n), PermOf(gen, n))
                                     ELSE Arange(n))]

----------------------------------------------------------------------------
(* StratifiedKFold *)

ClassesOf(y) == Range(y)

CountOf(y, c) == Cardinality({i \in 1..Len(y) : y[i] = c})

FirstPos(y, c) == CHOOSE i \in 1..Len(y) :
                     y[i] = c /\ \A j \in 1..(i - 1) : y[j] # c

\* classes numbered from 0 in order of first appearance
Encode(y, c) ==
    Cardinality({d \in ClassesOf(y) : FirstPos(y, d) < FirstPos(y, c)})

ClassAt(y, e) == CHOOSE c \in ClassesOf(y) : Encode(y, c) = e

CountIn(y, S) == Cardinality({i \in 1..Len(y) : y[i] \in S})

\* first position (from 0) of encoded class e in the sorted label array
SortedLo(y, e) == CountIn(y, {d \in ClassesOf(y) : Encode(y, d) < e})

\* how many of the positions lo, ..., lo + cnt - 1 fall to fold i (from 0)
\* when the positions are dealt to the k folds in turn
Dealt(lo, cnt, k, i) == Cardinality({j \in lo..(lo + cnt - 1) : j % k = i})

\* allocation[i][e]: samples of class e that fold i (from 0) receives
Allocation(y, k, i, e) ==
    Dealt(SortedLo(y, e), CountOf(y, ClassAt(y, e)), k, i)

\* values[1] repeated counts[1] times, then values[2] ..., as numpy repeat
RECURSIVE Repeat(_, _)
Repeat(values, counts) ==
    IF values = <<>> THEN <<>>
    ELSE ToSeq([j \in 1..Head(counts) |-> Head(values)], Head(counts))
           \o Repeat(Tail(values), Tail(counts))

\* arange(k).repeat(allocation[:, e])
FoldsForClass(y, k, e) ==
    Repeat(Arange(k), ToSeq([i \in 1..k |-> Allocation(y, k, i - 1, e)], k))

\* rng.shuffle(a) when shuffle is set
ShuffleIf(shuffle, a, gen) ==
    IF shuffle THEN Take(a, PermOf(gen, Len(a))) ELSE a

\* folds_for_class of every class, class e at place e + 1
AllFoldsForClass(y, k, shuffle, gen, n_classes) ==
    ToSeq([c \in 1..n_classes |->
             ShuffleIf(shuffle, FoldsForClass(y, k, c - 1), gen + c - 1)],
          n_classes)

EncodeAll(y) == ToSeq([p \in 1..Len(y) |-> Encode(y, y[p])], Len(y))

\* which sample of its class the sample at place p is
Rank(y, p) == Cardinality({q \in 1..p : y[q] = y[p]})

\* test_folds[y_encoded == e] = folds_for_class, for every class e
TestFolds(y, all_ffc, y_encoded) ==
    ToSeq([p \in 1..Len(y) |-> all_ffc[y_encoded[p] + 1][Rank(y, p)]], Len(y))

FoldsOf(n, k, test_folds) ==
    ToSeq([i \in 1..k |->
             TrainTest(n, {q - 1 : q \in {r \in 1..n : test_folds[r] = i - 1}})],
          k)

StratifiedKFoldSplit(y, k, shuffle, gen) ==
    IF \A c \in ClassesOf(y) : k > CountOf(y, c)
    THEN [raised |-> "ValueError", folds |-> <<>>]
    ELSE [raised |-> "none",
          folds |-> FoldsOf(Len(y), k,
                       TestFolds(y,
                          AllFoldsForClass(y, k, shuffle, gen,
                                           Cardinality(ClassesOf(y))),
                          EncodeAll(y)))]

----------------------------------------------------------------------------
(* StratifiedShuffleSplit with its default test_size of 0.1 *)

SortedClasses(y) ==
    ToSeq([i \in 1..Cardinality(ClassesOf(y)) |->
             CHOOSE c \in ClassesOf(y) :
                Cardinality({d \in ClassesOf(y) : d < c}) = i - 1],
          Cardinality(ClassesOf(y)))

ClassCounts(y, cls) == ToSeq([i \in 1..Len(cls) |-> CountOf(y, cls[i])], Len(cls))

\* the members of the set ps in increasing order, each less one
Ascending(ps) ==
    ToSeq([r \in 1..Cardinality(ps) |->
             (CHOOSE p \in ps : Cardinality({q \in ps : q < p}) = r - 1) - 1],
          Cardinality(ps))

\* positions (from 0) of the samples of each class, in order
AllMembers(y, cls) ==
    ToSeq([i \in 1..Len(cls) |-> Ascending({p \in 1..Len(y) : y[p] = cls[i]})],
          Len(cls))

Minus(a, b) == ToSeq([i \in 1..Len(a) |-> a[i] - b[i]], Len(a))

\* _approximate_mode: n_draws spread over the classes in proportion to
\* counts, the leftover going to the largest remainders, ties by tie_perm
ApproximateMode(counts, n_draws, tie_perm) ==
    LET m     == Len(counts)
        total == SumSeq(counts)
        floored(i) == (counts[i] * n_draws) \div total
        rem(i)     == (counts[i] * n_draws) % total
        need  == n_draws - SumSeq(ToSeq([i \in 1..m |-> floored(i)], m))
        pos(i) == CHOOSE q \in 1..m : tie_perm[q] = i - 1
        ahead(i) == Cardinality({j \in 1..m :
                       \/ rem(j) > rem(i)
                       \/ rem(j) = rem(i) /\ pos(j) < pos(i)})
    IN  ToSeq([i \in 1..m |-> floored(i) + (IF ahead(i) < need THEN 1 ELSE 0)],
              m)

\* every class's members in the order of a permutation of their own
ShuffledMembers(all_members, gen) ==
    ToSeq([i \in 1..Len(all_members) |->
             Take(all_members[i], PermOf(gen + i, Len(all_members[i])))],
          Len(all_members))

\* of every class's shuffled members the first n_i train, the next t_i test
Draw(shuffled, n_i, t_i) ==
    [train |-> UNION {{shuffled[i][r] : r \in 1..n_i[i]}
                         : i \in 1..Len(shuffled)},
     test |-> UNION {{shuffled[i][r] : r \in (n_i[i] + 1)..(n_i[i] + t_i[i])}
                         : i \in 1..Len(shuffled)}]

DrawGiven(counts, all_members, n_i, n_test, gen) ==
    Draw(ShuffledMembers(all_members, gen), n_i,
         ApproximateMode(Minus(counts, n_i), n_test,
                         PermOf(gen + 1, Len(counts))))

\* one iteration of _iter_indices
ShuffleSplitFold(counts, all_members, n_train, n_test, gen) ==
    DrawGiven(counts, all_members,
              ApproximateMode(counts, n_train, PermOf(gen, Len(counts))),
              n_test, gen)

ShuffleSplitFolds(k, n_train, n_test, counts, all_members, gen) ==
    IF \/ n_train = 0
       \/ \E i \in 1..Len(counts) : counts[i] < 2
       \/ n_train < Len(counts)
       \/ n_test < Len(counts)
    THEN [raised |-> "ValueError", folds |-> <<>>]
    ELSE [raised |-> "none",
          folds |-> ToSeq([it \in 1..k |->
                      ShuffleSplitFold(counts, all_members, n_train, n_test,
                                       gen + it)], k)]

StratifiedShuffleSplitSplit(y, k, gen) ==
    ShuffleSplitFolds(k, Len(y) - CeilDiv(Len(y), 10), CeilDiv(Len(y), 10),
                      ClassCounts(y, SortedClasses(y)),
                      AllMembers(y, SortedClasses(y)), gen)

\* cv.split(x, y): the (train, test) index sets, or the exception raised
Split(splitter, y, seeded, g) ==
    CASE splitter.cls = "KFold" ->
           KFoldSplit(Len(y), splitter.n_splits, splitter.shuffle,
                      GenOf(splitter, seeded, g))
      [] splitter.cls = "StratifiedKFold" ->
           StratifiedKFoldSplit(y, splitter.n_splits, splitter.shuffle,
                                GenOf(splitter, seeded, g))
      [] splitter.cls = "StratifiedShuffleSplit" ->
           StratifiedShuffleSplitSplit(y, splitter.n_splits,
                                       GenOf(splitter, seeded, g))

----------------------------------------------------------------------------
(* cross_val_score with scoring="accuracy".  A score is the fraction       *)
(* num/den of a fold's test samples the classifier fitted on that fold's   *)
(* training samples predicts correctly; wrong is the set of samples it     *)
(* mispredicts when they are held out.                                     *)

Labels(yrows) == ToSeq([i \in 1..Len(yrows) |-> yrows[i].Species], Len(yrows))

FoldScores(folds, wrong) ==
    ToSeq([i \in 1..Len(folds) |->
             [num |-> Cardinality(folds[i].test \ wrong),
              den |-> Cardinality(folds[i].test)]], Len(folds))

Scored(sp, wrong) ==
    IF sp.raised # "none"
    THEN [raised |-> sp.raised, folds |-> <<>>, scores |-> <<>>]
    ELSE [raised |-> "none", folds |-> sp.folds,
          scores |-> FoldScores(sp.folds, wrong)]

CrossValScore(x, y, cv, seeded, g, wrong) ==
    IF Len(x) # Len(y) \/ Len(x) = 0
    THEN [raised |-> "ValueError", folds |-> <<>>, scores |-> <<>>]
    ELSE Scored(Split(cv, Labels(y), seeded, g), wrong)

----------------------------------------------------------------------------
(* Statistics and formatting.  Scores are brought to the common            *)
(* denominator D; numbers are printed in hundredths ("%0.2f").             *)

CommonDen(scores) ==
    LcmSeq(ToSeq([i \in 1..Len(scores) |-> scores[i].den], Len(scores)))

ScaledBy(scores, d) ==
    ToSeq([i \in 1..Len(scores) |-> scores[i].num * (d \div scores[i].den)],
          Len(scores))

Scaled(scores) == ScaledBy(scores, CommonDen(scores))

Square(a) == a * a

\* round a / b (b > 0, a >= 0) to the nearest integer, ties to even
RoundDiv(a, b) ==
    IF 2 * (a % b) > b \/ (2 * (a % b) = b /\ (a \div b) % 2 = 1)
    THEN (a \div b) + 1
    ELSE a \div b

\* "%0.2f" % scores.mean()
FmtMean(scores) ==
    RoundDiv(100 * SumSeq(Scaled(scores)), Len(scores) * CommonDen(scores))

\* k * sum(s^2) - sum(s)^2, for the k scaled scores s
Spread(s) ==
    Len(s) * SumSeq(ToSeq([i \in 1..Len(s) |-> s[i] * s[i]], Len(s)))
      - SumSeq(s) * SumSeq(s)

\* (k * D * std)^2
VarNum(scores) == Spread(Scaled(scores))

\* q / 2 rounded to the nearest integer, for q the floor of a number that
\* is q exactly or lies above it; a tie goes to the even neighbour
HalfRound(q, exact) ==
    IF q % 2 = 0 THEN q \div 2
    ELSE IF exact /\ ((q + 1) \div 2) % 2 = 1 THEN (q - 1) \div 2
    ELSE (q + 1) \div 2

\* t^2 <= u^2 * v and t^2 >= u^2 * v for t, v >= 0 and u > 0, computed
\* from t = a * u + b without forming the squares
SqLe(t, u, v) ==
    Square(t \div u)
      + CeilDiv(2 * (t \div u) * (t % u) + CeilDiv(Square(t % u), u), u) <= v

SqGe(t, u, v) ==
    Square(t \div u)
      + ((2 * (t \div u) * (t % u) + (Square(t % u) \div u)) \div u) >= v

\* floor of u * sqrt(v) / kd, which is at most u / 2
RootFloor(v, kd, u) ==
    CHOOSE q \in 0..(u \div 2) :
       SqLe(q * kd, u, v) /\ ~SqLe((q + 1) * kd, u, v)

HalfRoundOf(q, v, kd, u) == HalfRound(q, SqGe(q * kd, u, v))

\* u * sqrt(v) / kd / 2, rounded
HalfRoot(v, kd, u) == HalfRoundOf(RootFloor(v, kd, u), v, kd, u)

\* "%0.2f" % (c * scores.std()), for c = 1 or 2: half of 2 * 100 * c * std,
\* where std = sqrt(VarNum) / (k * D); a standard deviation of accuracies
\* is at most 1/2
FmtStdTimes(c, scores) ==
    HalfRoot(VarNum(scores), Len(scores) * CommonDen(scores), 200 * c)

----------------------------------------------------------------------------
(* rate_accuracy *)

\* shuffle: Optional[bool], written "None", "False" or "True"
Truthy(v) == v = "True"

NoSplitter == [raised |-> "n/a"]

\* variant: the shuffle argument is ignored
MakeSplitterNoShuffle(validator, shuffle, n_splits) ==
    Construct(validator, n_splits, Unset, NoSeed)

\* variant: one split too many is asked for
MakeSplitterExtraSplit(validator, shuffle, n_splits) ==
    LET first == Construct(validator, n_splits + 1, Unset, NoSeed)
    IN  IF first.raised # "none" THEN first
        ELSE IF Truthy(shuffle)
             THEN Construct(validator, n_splits + 1, "True", RANDOM_STATE)
             ELSE first

\* variant: KFold is built whatever the validator argument is
MakeSplitterAlwaysKFold(validator, shuffle, n_splits) ==
    LET first == Construct("KFold", n_splits, Unset, NoSeed)
    IN  IF first.raised # "none" THEN first
        ELSE IF Truthy(shuffle)
             THEN Construct("KFold", n_splits, "True", RANDOM_STATE)
             ELSE first

\* variant: shuffle=True is passed without a random_state
MakeSplitterUnseeded(validator, shuffle, n_splits) ==
    LET first == Construct(validator, n_splits, Unset, NoSeed)
    IN  IF first.raised # "none" THEN first
        ELSE IF Truthy(shuffle)
             THEN Construct(validator, n_splits, "True", NoSeed)
             ELSE first

\* validator_initialized: the splitter rate_accuracy hands to
\* cross_val_score
MakeSplitter(validator, shuffle, n_splits) ==
    LET first == Construct(validator, n_splits, Unset, NoSeed)
    IN  IF first.raised # "none" THEN first
        ELSE IF Truthy(shuffle)
             THEN Construct(validator, n_splits, "True", RANDOM_STATE)
             ELSE first

\* variant: the standard deviation is printed as it is
FormatLineOnceStd(title, kfold_score) ==
    [title |-> title,
     mean |-> FmtMean(kfold_score),
     spread |-> FmtStdTimes(1, kfold_score)]

\* "%s: %0.2f (+/- %0.2f)" % (title, kfold_score.mean(), kfold_score.std() * 2)
FormatLine(title, kfold_score) ==
    [title |-> title,
     mean |-> FmtMean(kfold_score),
     spread |-> FmtStdTimes(2, kfold_score)]

\* an invocation that an exception left
Raised(args, e, splitter) ==
    [args |-> args, raised |-> e, splitter |-> splitter,
     folds |-> <<>>, scores |-> <<>>, printed |-> <<>>]

\* the statements after cross_val_score has returned (or raised)
Scoring(args, validator_initialized, cvs) ==
    IF cvs.raised # "none"
    THEN Raised(args, cvs.raised, validator_initialized)
    ELSE [args |-> args, raised |-> "none",
          splitter |-> validator_initialized,
          folds |-> cvs.folds, scores |-> cvs.scores,
          printed |-> <<FormatLine(args.title, cvs.scores)>>]

\* the statements after the splitter has been constructed (or has raised)
Validating(x, y, args, validator_initialized, seeded, g, wrong) ==
    IF validator_initialized.raised # "none"
    THEN Raised(args, validator_initialized.raised, NoSplitter)
    ELSE Scoring(args, validator_initialized,
                 CrossValScore(x, y, validator_initialized, seeded, g, wrong))

\* one invocation: what it raised, built, got back and printed
RateAccuracyRun(x, y, title, validator, shuffle, n_splits, seeded, g, wrong) ==
    Validating(x, y,
               [title |-> title, validator |-> validator,
                shuffle |-> shuffle, n_splits |-> n_splits],
               MakeSplitter(validator, shuffle, n_splits), seeded, g, wrong)

\* RandomForestClassifier() is unseeded: what it mispredicts depends on
\* the global generator's state
WrongOf(g, n) ==
    {PermOf(g, n)[j] : j \in 1..Min(n, g % (MaxWrong + 1))}

Advance(g) == (g + 1) % MaxRng

\* variant: an exception of the library is caught and dropped
RateAccuracyCaught(title, validator, shuffle, n_splits) ==
    \E run \in {RateAccuracyRun(x_iris, y_iris, title, validator, shuffle,
                                n_splits, rng52, np_random,
                                WrongOf(np_random, Len(x_iris)))} :
       /\ calls' = Append(calls, run)
       /\ stdout' = stdout \o run.printed
       /\ exc' = "none"
       /\ np_random' = Advance(np_random)

\* the effect of a call on the session: record, output, exception
RateAccuracy(title, validator, shuffle, n_splits) ==
    \E run \in {RateAccuracyRun(x_iris, y_iris, title, validator, shuffle,
                                n_splits, rng52, np_random,
                                WrongOf(np_random, Len(x_iris)))} :
       /\ calls' = Append(calls, run)
       /\ stdout' = stdout \o run.printed
       /\ exc' = run.raised
       /\ np_random' = Advance(np_random)

----------------------------------------------------------------------------
(* The data file and the first cells *)

Columns == <<"Id", "SepalLengthCm", "SepalWidthCm", "PetalLengthCm",
             "PetalWidthCm", "Species">>

\* rows of the frame read_csv returns for a file of labels; a sample's
\* measurements are stood for by its number
Frame(labels) ==
    ToSeq([i \in 1..Len(labels) |->
             [c \in Range(Columns) \cup {"idx"} |->
                 IF c = "idx" THEN i - 1
                 ELSE IF c = "Species" THEN labels[i] ELSE i]], Len(labels))

\* frame.iloc[:, lo:hi] with Python slice bounds, row index kept
ILocCols(frame, cols) ==
    ToSeq([i \in 1..Len(frame) |->
             [c \in cols \cup {"idx"} |-> frame[i][c]]], Len(frame))

PyStop(len, stop) == IF stop < 0 THEN len + stop ELSE stop

FeatureCols == {Columns[j] : j \in (1 + 1)..PyStop(Len(Columns), -1)}
LabelCols   == {Columns[PyStop(Len(Columns), -1) + 1]}

\* labels sorted by class, with the given number of rows per class
SortedLabels(counts) ==
    ToSeq([i \in 1..(counts[1] + counts[2] + counts[3]) |->
             IF i <= counts[1] THEN 1
             ELSE IF i <= counts[1] + counts[2] THEN 2 ELSE 3],
          counts[1] + counts[2] + counts[3])

PerClassChoices == {1, 5, MaxPerClass}

NotebookFiles ==
    {NoFile} \cup {[exists |-> TRUE, labels |-> SortedLabels(c)] :
                      c \in [1..3 -> PerClassChoices]}

RECURSIVE SeqsUpTo(_, _)
SeqsUpTo(S, n) ==
    IF n = 0 THEN {<<>>}
    ELSE LET shorter == SeqsUpTo(S, n - 1)
         IN  shorter \cup {Append(q, e) : q \in {t \in shorter : Len(t) = n - 1},
                                          e \in S}

SessionFiles == {[exists |-> TRUE, labels |-> l] : l \in SeqsUpTo({1, 2}, MaxN)}

----------------------------------------------------------------------------
(* train_test_split(x, y, test_size=0.3, random_state=52) *)

Rows(frame, inds) ==
    ToSeq([i \in 1..Len(inds) |-> frame[inds[i] + 1]], Len(inds))

\* train rows of x, test rows of x, train rows of y, test rows of y
Halves(x, y, ind_train, ind_test) ==
    <<Rows(x, ind_train), Rows(x, ind_test),
      Rows(y, ind_train), Rows(y, ind_test)>>

\* the first n_test places of the permutation are the test set
Permuted(x, y, permutation, n_test) ==
    Halves(x, y, SubSeq(permutation, n_test + 1, Len(permutation)),
           SubSeq(permutation, 1, n_test))

TrainTestSplit(x, y, seeded) ==
    IF Len(x) # Len(y) \/ Len(x) - CeilDiv(3 * Len(x), 10) = 0
    THEN [raised |-> "ValueError", out |-> <<>>]
    ELSE [raised |-> "none",
          out |-> Permuted(x, y, PermOf(seeded, Len(x)),
                           CeilDiv(3 * Len(x), 10))]

----------------------------------------------------------------------------
(* GridSearchCV *)

\* variant: one candidate of max_depth is missing
parameters_grid_short ==
    [n_estimators |-> <<"10", "100", "1000">>,
     criterion |-> <<"gini", "entropy", "log_loss">>,
     max_depth |-> <<"10", "100">>,
     min_samples_split |-> <<"2", "4", "6">>,
     min_samples_leaf |-> <<"1", "2", "3">>,
     min_weight_fraction_leaf |-> <<"0.1", "0.01", "0.0">>]

\* parameters_grid, each candidate value written as its Python literal
parameters_grid ==
    [n_estimators |-> <<"10", "100", "1000">>,
     criterion |-> <<"gini", "entropy", "log_loss">>,
     max_depth |-> <<"10", "100", "None">>,
     min_samples_split |-> <<"2", "4", "6">>,
     min_samples_leaf |-> <<"1", "2", "3">>,
     min_weight_fraction_leaf |-> <<"0.1", "0.01", "0.0">>]

\* ParameterGrid iterates the keys in sorted order, the last one fastest
SortedKeys ==
    <<"criterion", "max_depth", "min_samples_leaf", "min_samples_split",
      "min_weight_fraction_leaf", "n_estimators">>

RECURSIVE GridSize(_, _)
GridSize(grid, keys) ==
    IF keys = <<>> THEN 1
    ELSE Len(grid[Head(keys)]) * GridSize(grid, Tail(keys))

\* the j-th (from 0) combination of itertools.product over the keys
Combination(grid, keys, j) ==
    [key \in Range(keys) |->
        LET m    == CHOOSE q \in 1..Len(keys) : keys[q] = key
            rest == GridSize(grid, SubSeq(keys, m + 1, Len(keys)))
        IN  grid[key][((j \div rest) % Len(grid[key])) + 1]]

ParameterGrid(grid, keys) ==
    ToSeq([j \in 1..GridSize(grid, keys) |-> Combination(grid, keys, j - 1)],
          GridSize(grid, keys))

\* mean cross-validated accuracy (hundredths) of the j-th candidate: it
\* depends on the candidate and on the unseeded classifier's generator
MeanTestScore(g, j) == 80 + ((j * (g + 1) + g) % 17)

\* index of the first candidate with the highest mean score
BestIndex(results) ==
    CHOOSE b \in 1..Len(results) :
       /\ \A j \in 1..Len(results) :
             results[b].mean_test_score >= results[j].mean_test_score
       /\ \A j \in 1..(b - 1) :
             results[j].mean_test_score < results[b].mean_test_score

IdxOf(frame, positions) == {frame[p + 1].idx : p \in positions}

NotFitted == [fitted |-> FALSE]

NoOutput == [shown |-> FALSE]

CvRows(x, folds) ==
    ToSeq([i \in 1..Len(folds) |->
             [train |-> IdxOf(x, folds[i].train),
              test |-> IdxOf(x, folds[i].test)]], Len(folds))

CvResults(candidates, g) ==
    ToSeq([j \in 1..Len(candidates) |->
             [params |-> candidates[j],
              mean_test_score |-> MeanTestScore(g, j)]], Len(candidates))

Fitted(x, folds, results) ==
    [fitted |-> TRUE,
     cv_results_ |-> results,
     best_index_ |-> BestIndex(results),
     cv_rows |-> CvRows(x, folds),
     refit_rows |-> IdxOf(x, 0..(Len(x) - 1))]

FitOn(grid, x, y, g, sp) ==
    IF Len(x) # Len(y) \/ sp.raised # "none"
    THEN [raised |-> "ValueError", obj |-> NotFitted]
    ELSE [raised |-> "none",
          obj |-> Fitted(x, sp.folds,
                         CvResults(ParameterGrid(grid, SortedKeys), g))]

\* GridSearchCV(RandomForestClassifier(), param_grid=grid).fit(x, y):
\* 5-fold stratified cross-validation of every candidate, then a refit of
\* the best one on all of x
GridSearchFit(grid, x, y, g) ==
    FitOn(grid, x, y, g,
          Split(Construct("StratifiedKFold", 5, Unset, NoSeed), Labels(y), 0, g))

\* grid_search.score(x, y): accuracy of the refitted best estimator
GridSearchScore(x, y, g) ==
    [rows |-> IdxOf(x, 0..(Len(x) - 1)),
     num |-> Len(x) - Cardinality(WrongOf(g, Len(x))),
     den |-> Len(x)]

----------------------------------------------------------------------------
(* The notebook's cells, in written order *)

CALLS ==
    <<[title |-> "K-Fold accuracy",
       validator |-> "KFold", shuffle |-> "True", n_splits |-> 5],
      [title |-> "K-Fold accuracy with 15 splits",
       validator |-> "KFold", shuffle |-> "True", n_splits |-> 15],
      [title |-> "K-Fold accuracy with 10 splits",
       validator |-> "KFold", shuffle |-> "True", n_splits |-> 10],
      [title |-> "K-Fold accuracy with 3 splits",
       validator |-> "KFold", shuffle |-> "True", n_splits |-> 3],
      [title |-> "Stratified K-Fold accuracy with 15 splits",
       validator |-> "StratifiedKFold", shuffle |-> "True", n_splits |-> 15],
      [title |-> "Stratified K-Fold accuracy with 10 splits",
       validator |-> "StratifiedKFold", shuffle |-> "True", n_splits |-> 10],
      [title |-> "Stratified K-Fold accuracy with 3 splits",
       validator |-> "StratifiedKFold", shuffle |-> "True", n_splits |-> 3],
      [title |-> "Stratified Shuffle Split accuracy with 15 splits",
       validator |-> "StratifiedShuffleSplit", shuffle |-> "None",
       n_splits |-> 15],
      [title |-> "Stratified Shuffle Split accuracy with 10 splits",
       validator |-> "StratifiedShuffleSplit", shuffle |-> "None",
       n_splits |-> 10],
      [title |-> "Stratified Shuffle Split accuracy with 3 splits",
       validator |-> "StratifiedShuffleSplit", shuffle |-> "None",
       n_splits |-> 3]>>

FirstCall == 3
SplitPc   == FirstCall + Len(CALLS)
FitPc     == SplitPc + 1
BestPcEarly == SplitPc + 1     \* variant: best_params_ read before the fit
BestPc    == SplitPc + 2
ScorePc   == SplitPc + 3
DonePc    == SplitPc + 4

\* the steps of a complete run, by name
Steps ==
    <<"read_csv", "iloc">> \o [i \in 1..Len(CALLS) |-> CALLS[i].title]
      \o <<"train_test_split", "fit", "best_params_", "score">>

Running(p) == pc = p /\ exc = "none"

\* a step that ran to its end moves on; one that raised stops the run
Proceed == pc' = IF exc' = "none" THEN pc + 1 ELSE pc

InitWith(files) ==
    /\ file \in files
    /\ rng52 \in RngIds
    /\ np_random \in 0..(MaxStart - 1)
    /\ pc = 1
    /\ exc = "none"
    /\ iris = <<>>
    /\ x_iris = <<>>
    /\ y_iris = <<>>
    /\ stdout = <<>>
    /\ calls = <<>>
    /\ x_train = <<>>
    /\ x_test = <<>>
    /\ y_train = <<>>
    /\ y_test = <<>>
    /\ grid_search = NotFitted
    /\ best_out = NoOutput
    /\ score_out = NoOutput
    /\ executed = <<>>

\* iris = read_csv("../datasets/iris.csv")
ReadCsv ==
    /\ Running(1)
    /\ executed' = Append(executed, "read_csv")
    /\ exc' = IF file.exists THEN "none" ELSE "FileNotFoundError"
    /\ iris' = IF file.exists THEN Frame(file.labels) ELSE iris
    /\ Proceed
    /\ UNCHANGED <<file, rng52, np_random, x_iris, y_iris, stdout, calls,
                   x_train, x_test, y_train, y_test, grid_search, best_out,
                   score_out>>

\* x_iris, y_iris = iris.iloc[:, 1:-1], iris.iloc[:, -1]
Iloc ==
    /\ Running(2)
    /\ executed' = Append(executed, "iloc")
    /\ x_iris' = ILocCols(iris, FeatureCols)
    /\ y_iris' = ILocCols(iris, LabelCols)
    /\ exc' = "none"
    /\ Proceed
    /\ UNCHANGED <<file, rng52, np_random, iris, stdout, calls,
                   x_train, x_test, y_train, y_test, grid_search, best_out,
                   score_out>>

\* the rate_accuracy calls of cells 4 to 7
NotebookCall ==
    /\ pc \in FirstCall..(SplitPc - 1)
    /\ exc = "none"
    /\ LET c == CALLS[pc - FirstCall + 1]
       IN  /\ executed' = Append(executed, c.title)
           /\ RateAccuracy(c.title, c.validator, c.shuffle, c.n_splits)
    /\ Proceed
    /\ UNCHANGED <<file, rng52, iris, x_iris, y_iris,
                   x_train, x_test, y_train, y_test, grid_search, best_out,
                   score_out>>

\* variant: the label halves are unpacked in the wrong order
SplitStepSwapped ==
    /\ Running(SplitPc)
    /\ executed' = Append(executed, "train_test_split")
    /\ \E r \in {TrainTestSplit(x_iris, y_iris, rng52)} :
          /\ exc' = r.raised
          /\ IF r.raised = "none"
             THEN /\ x_train' = r.out[1]
                  /\ x_test' = r.out[2]
                  /\ y_train' = r.out[4]
                  /\ y_test' = r.out[3]
             ELSE UNCHANGED <<x_train, x_test, y_train, y_test>>
    /\ Proceed
    /\ UNCHANGED <<file, rng52, np_random, iris, x_iris, y_iris, stdout,
                   calls, grid_search, best_out, score_out>>

\* x_train, x_test, y_train, y_test = train_test_split(x_iris, y_iris, ...)
SplitStep ==
    /\ Running(SplitPc)
    /\ executed' = Append(executed, "train_test_split")
    /\ \E r \in {TrainTestSplit(x_iris, y_iris, rng52)} :
          /\ exc' = r.raised
          /\ IF r.raised = "none"
             THEN /\ x_train' = r.out[1]
                  /\ x_test' = r.out[2]
                  /\ y_train' = r.out[3]
                  /\ y_test' = r.out[4]
             ELSE UNCHANGED <<x_train, x_test, y_train, y_test>>
    /\ Proceed
    /\ UNCHANGED <<file, rng52, np_random, iris, x_iris, y_iris, stdout,
                   calls, grid_search, best_out, score_out>>

\* variant: the search is fitted on the whole data set
FitStepOnAllRows ==
    /\ Running(FitPc)
    /\ executed' = Append(executed, "fit")
    /\ \E r \in {GridSearchFit(parameters_grid, x_iris, y_iris, np_random)} :
          /\ exc' = r.raised
          /\ grid_search' = r.obj
    /\ np_random' = Advance(np_random)
    /\ Proceed
    /\ UNCHANGED <<file, rng52, iris, x_iris, y_iris, stdout, calls,
                   x_train, x_test, y_train, y_test, best_out, score_out>>

\* grid_search = GridSearchCV(...); grid_search.fit(x_train, y_train)
FitStep ==
    /\ Running(FitPc)
    /\ executed' = Append(executed, "fit")
    /\ \E r \in {GridSearchFit(parameters_grid, x_train, y_train, np_random)} :
          /\ exc' = r.raised
          /\ grid_search' = r.obj
    /\ np_random' = Advance(np_random)
    /\ Proceed
    /\ UNCHANGED <<file, rng52, iris, x_iris, y_iris, stdout, calls,
                   x_train, x_test, y_train, y_test, best_out, score_out>>

\* grid_search.best_params_
BestParams ==
    /\ Running(BestPc)
    /\ executed' = Append(executed, "best_params_")
    /\ exc' = IF grid_search.fitted THEN "none" ELSE "AttributeError"
    /\ best_out' = IF grid_search.fitted
                   THEN [shown |-> TRUE, value |->
                     grid_search.cv_results_[grid_search.best_index_].params]
                   ELSE best_out
    /\ Proceed
    /\ UNCHANGED <<file, rng52, np_random, iris, x_iris, y_iris, stdout,
                   calls, x_train, x_test, y_train, y_test, grid_search,
                   score_out>>

\* grid_search.score(x_test, y_test)
ScoreStep ==
    /\ Running(ScorePc)
    /\ executed' = Append(executed, "score")
    /\ exc' = IF grid_search.fitted THEN "none" ELSE "NotFittedError"
    /\ score_out' = IF grid_search.fitted
                    THEN [shown |-> TRUE, value |->
                            GridSearchScore(x_test, y_test, np_random)]
                    ELSE score_out
    /\ Proceed
    /\ UNCHANGED <<file, rng52, np_random, iris, x_iris, y_iris, stdout,
                   calls, x_train, x_test, y_train, y_test, grid_search,
                   best_out>>

Init == InitWith(NotebookFiles)

Next ==
    \/ ReadCsv
    \/ Iloc
    \/ NotebookCall
    \/ SplitStep
    \/ FitStep
    \/ BestParams
    \/ ScoreStep

Spec == Init /\ [][Next]_vars

----------------------------------------------------------------------------
(* An interactive session: the data cells, then a cell that calls          *)
(* rate_accuracy with arguments of the user's choosing, run and run again  *)

ShuffleValues == {"None", "False", "True"}

\* a cell calling rate_accuracy is written and run
SessionCall ==
    /\ Running(FirstCall)
    /\ calls = <<>>
    /\ \E validator \in SplitterClasses, shuffle \in ShuffleValues,
          n_splits \in 2..MaxSplits :
          RateAccuracy("accuracy", validator, shuffle, n_splits)
    /\ executed' = Append(executed, "accuracy")
    /\ UNCHANGED <<file, rng52, pc, iris, x_iris, y_iris,
                   x_train, x_test, y_train, y_test, grid_search, best_out,
                   score_out>>

\* the same cell is run again
RerunCell ==
    /\ Running(FirstCall)
    /\ Len(calls) \in 1..(MaxCalls - 1)
    /\ LET last == calls[Len(calls)].args
       IN  RateAccuracy(last.title, last.validator, last.shuffle,
                        last.n_splits)
    /\ executed' = Append(executed, "accuracy")
    /\ UNCHANGED <<file, rng52, pc, iris, x_iris, y_iris,
                   x_train, x_test, y_train, y_test, grid_search, best_out,
                   score_out>>

InitSession == InitWith(SessionFiles)

NextSession ==
    \/ ReadCsv
    \/ Iloc
    \/ SessionCall
    \/ RerunCell

SpecSession == InitSession /\ [][NextSession]_vars

----------------------------------------------------------------------------
(* Properties *)

Completed(c) == c.raised = "none"

CompletedCalls == {i \in 1..Len(calls) : Completed(calls[i])}

\* m hundredths is the mean of the scores, rounded
MeanShown(scores, m) ==
    LET kd == Len(scores) * CommonDen(scores)
        t  == 200 * SumSeq(Scaled(scores))
    IN  t - 2 * m * kd <= kd /\ 2 * m * kd - t <= kd

\* p hundredths is c times the standard deviation of the scores, rounded:
\* 2p - 1 <= 200 * c * std <= 2p + 1
SpreadShown(c, scores, p) ==
    LET kd == Len(scores) * CommonDen(scores)
    IN  /\ p = 0 \/ SqLe((2 * p - 1) * kd, 200 * c, VarNum(scores))
        /\ SqGe((2 * p + 1) * kd, 200 * c, VarNum(scores))

LinePrinted(c, i, factor) ==
    /\ i <= Len(stdout)
    /\ c.printed = <<stdout[i]>>
    /\ stdout[i].title = c.args.title
    /\ MeanShown(c.scores, stdout[i].mean)
    /\ SpreadShown(factor, c.scores, stdout[i].spread)

\* C1 as stated: every completed rate_accuracy call prints exactly one
\* line, with the title, the mean of the scores and the standard deviation
\* of the scores.
C1_SecondNumberIsStd ==
    /\ Len(stdout) = Cardinality(CompletedCalls)
    /\ \A i \in CompletedCalls : LinePrinted(calls[i], i, 1)

\* C1 amended: every completed rate_accuracy call prints exactly one line,
\* with the title, the mean of the scores and TWICE the standard deviation
\* of the scores (both to two decimals).
C1_SecondNumberIsTwiceStd ==
    /\ Len(stdout) = Cardinality(CompletedCalls)
    /\ \A i \in CompletedCalls : LinePrinted(calls[i], i, 2)

\* a completed call whose scores differ from fold to fold
C1_Witness ==
    \E i \in CompletedCalls : stdout[i].spread > 0 /\ stdout[i].mean > 0

\* C8: the splitter handed to cross_val_score depends only on validator,
\* shuffle and n_splits: validator(n_splits, shuffle=True, random_state=52)
\* when shuffle is truthy, validator(n_splits) with the defaults otherwise;
\* a completed call returns exactly n_splits scores.
C8_SplitterFromArguments ==
    \A i \in 1..Len(calls) :
       LET c == calls[i]
       IN  /\ c.splitter # NoSplitter =>
                /\ c.splitter.cls = c.args.validator
                /\ c.splitter.n_splits = c.args.n_splits
                /\ c.args.shuffle = "True" =>
                      c.splitter.shuffle /\ c.splitter.random_state = 52
                /\ c.args.shuffle \in {"None", "False"} =>
                      ~c.splitter.shuffle /\ c.splitter.random_state = NoSeed
           /\ Completed(c) =>
                /\ c.splitter # NoSplitter
                /\ Len(c.scores) = c.args.n_splits

\* a completed call with shuffle=True of three splits
C8_Witness ==
    \E i \in CompletedCalls :
       /\ calls[i].args.shuffle = "True"
       /\ calls[i].splitter.random_state = 52
       /\ Len(calls[i].scores) = 3

\* C3: with validator=KFold the k test folds are pairwise disjoint, cover
\* all n samples, differ in size by at most one, there are exactly k
\* iterations, and each iteration trains on exactly the other k-1 folds.
C3_KFoldPartition ==
    \A i \in CompletedCalls :
       calls[i].args.validator = "KFold" =>
          LET k == calls[i].args.n_splits
              n == Len(y_iris)
              F == calls[i].folds
          IN  /\ Len(F) = k
              /\ \A a, b \in 1..Len(F) :
                    a # b => F[a].test \cap F[b].test = {}
              /\ UNION {F[a].test : a \in 1..Len(F)} = 0..(n - 1)
              /\ \A a, b \in 1..Len(F) :
                    Cardinality(F[a].test) - Cardinality(F[b].test) <= 1
              /\ \A a \in 1..Len(F) :
                    /\ F[a].test # {}
                    /\ F[a].train =
                         UNION {F[b].test : b \in (1..Len(F)) \ {a}}
                    /\ F[a].train \cap F[a].test = {}

\* a completed shuffled KFold call whose folds differ in size
C3_Witness ==
    \E i \in CompletedCalls :
       /\ calls[i].args.validator = "KFold"
       /\ calls[i].args.shuffle = "True"
       /\ \E a, b \in 1..Len(calls[i].folds) :
             Cardinality(calls[i].folds[a].test)
                > Cardinality(calls[i].folds[b].test)

ClassCountIn(fold, c) ==
    Cardinality({p \in fold : file.labels[p + 1] = c})

\* C4: with validator=StratifiedKFold every test fold holds floor(n_c/k) or
\* ceil(n_c/k) samples of each class c; in particular for the notebook's
\* n_splits 15, 10 and 3.
C4_StratifiedFolds ==
    \A i \in CompletedCalls :
       calls[i].args.validator = "StratifiedKFold" =>
          \A c \in ClassesOf(file.labels), a \in 1..Len(calls[i].folds) :
             ClassCountIn(calls[i].folds[a].test, c) \in
                {CountOf(file.labels, c) \div calls[i].args.n_splits,
                 CeilDiv(CountOf(file.labels, c), calls[i].args.n_splits)}

\* the three stratified calls (15, 10 and 3 splits) completed on three
\* classes of equal size
C4_Witness ==
    /\ \A n_splits \in {15, 10, 3} :
          \E i \in CompletedCalls :
             /\ calls[i].args.validator = "StratifiedKFold"
             /\ calls[i].args.n_splits = n_splits
    /\ ClassesOf(file.labels) = {1, 2, 3}
    /\ \A c, d \in {1, 2, 3} :
          CountOf(file.labels, c) = CountOf(file.labels, d)

GridKeys == {"n_estimators", "criterion", "max_depth", "min_samples_split",
             "min_samples_leaf", "min_weight_fraction_leaf"}

InGrid(params) ==
    /\ DOMAIN params = GridKeys
    /\ \A key \in GridKeys : params[key] \in Range(parameters_grid[key])

\* C2: the grid search evaluates every combination of one candidate per
\* parameter (6 parameters, 3 candidates each, 729 combinations) exactly
\* once and nothing else; best_params_ is a combination of the grid whose
\* mean score is at least that of every other combination.
C2_ExhaustiveGrid ==
    grid_search.fitted =>
       LET R == grid_search.cv_results_
           best == R[grid_search.best_index_]
       IN  /\ \A key \in GridKeys :
                 Cardinality(Range(parameters_grid[key])) = 3
           /\ Len(R) = 729
           /\ Cardinality({R[j].params : j \in 1..Len(R)}) = 729
           /\ \A j \in 1..Len(R) : InGrid(R[j].params)
           /\ \A j \in 1..Len(R) :
                 best.mean_test_score >= R[j].mean_test_score
           /\ best_out.shown => best_out.value = best.params

\* best_params_ has been read after a fit
C2_Witness == grid_search.fitted /\ best_out.shown

IsPrefix(s1, s2) ==
    Len(s1) <= Len(s2) /\ \A i \in 1..Len(s1) : s1[i] = s2[i]

Terminated == pc = DonePc \/ exc # "none"

\* C5 as stated: the run terminates having run every step exactly once, in
\* written order, none skipped.
C5_EveryStepRuns == Terminated => executed = Steps /\ exc = "none"

C5_InOrder ==
    /\ IsPrefix(executed, Steps)
    /\ exc = "none" => Len(executed) = pc - 1
    /\ exc # "none" => Len(executed) = pc
    /\ pc = DonePc => executed = Steps
    /\ best_out.shown \/ score_out.shown => grid_search.fitted

\* what one step of the run does: it starts from a run that has not ended,
\* runs the step the position names, and either moves to the next position
\* or ends the run with an exception
C5_Step ==
    /\ ~Terminated
    /\ executed' = Append(executed, Steps[pc])
    /\ exc' = "none" => pc' = pc + 1
    /\ exc' # "none" => pc' = pc
    /\ C5_InOrder'

\* C5 amended: the run always terminates (every step moves to the next
\* position or ends the run, and nothing runs after the end); the steps run
\* in written order, each at most once, none retried, skipped or
\* reordered; when no step raises every step runs exactly once, and when
\* one raises the run stops at it; the fit precedes the reading of
\* best_params_ and the scoring.
C5_TerminatesInOrder == [][C5_Step]_vars

\* a complete run
C5_Witness == pc = DonePc /\ executed = Steps /\ score_out.shown

Aligned(x, y) ==
    /\ Len(x) = Len(y)
    /\ \A i \in 1..Len(x) :
          /\ x[i].idx = y[i].idx
          /\ file.labels[x[i].SepalLengthCm] = y[i].Species

\* C6: the feature rows and label rows handed together to a library
\* routine are equally many, and row i of both belongs to the same sample:
\* x_iris/y_iris, x_train/y_train and x_test/y_test.
C6_RowsAligned ==
    /\ Aligned(x_iris, y_iris)
    /\ Aligned(x_train, y_train)
    /\ Aligned(x_test, y_test)

\* the split halves have been handed to fit and to score, and the split
\* reordered the rows
C6_Witness ==
    /\ score_out.shown
    /\ \E i \in 1..Len(x_train) : x_train[i].idx # i - 1
    /\ \E i, j \in 1..Len(y_test) : y_test[i].Species # y_test[j].Species

\* C7: an exception raised by the library inside rate_accuracy leaves the
\* call uncaught: the run stops with that exception, the call prints no
\* line, and no later step runs.
C7_RaisePropagates ==
    \A i \in 1..Len(calls) :
       ~Completed(calls[i]) =>
          /\ i = Len(calls)
          /\ exc = calls[i].raised
          /\ calls[i].printed = <<>>
          /\ Len(stdout) = i - 1
          /\ pc = FirstCall + i - 1
          /\ executed = SubSeq(Steps, 1, FirstCall + i - 1)
          /\ x_train = <<>> /\ x_test = <<>>
          /\ ~grid_search.fitted
          /\ ~best_out.shown /\ ~score_out.shown

\* a call raised after earlier calls had printed their lines
C7_Witness ==
    /\ Len(calls) >= 2
    /\ ~Completed(calls[Len(calls)])
    /\ Len(stdout) = Len(calls) - 1

IdxSet(frame) == {frame[i].idx : i \in 1..Len(frame)}

\* C9: train_test_split divides the rows into disjoint training and test
\* sets that together hold every row once, the test set being 30% of the
\* rows (rounded up; 45 of 150 rows); the fit, with its cross-validation
\* folds and refit, uses only training rows and the score only test rows.
C9_HoldOut ==
    (pc > SplitPc) =>
       LET tr == IdxSet(x_train)
           te == IdxSet(x_test)
           n  == Len(x_iris)
       IN  /\ tr \cap te = {}
           /\ tr \cup te = IdxSet(x_iris)
           /\ Len(x_train) + Len(x_test) = n
           /\ 10 * Len(x_test) >= 3 * n
           /\ 10 * (Len(x_test) - 1) < 3 * n
           /\ n = 150 => Len(x_test) = 45
           /\ grid_search.fitted =>
                 /\ grid_search.refit_rows \subseteq tr
                 /\ \A a \in 1..Len(grid_search.cv_rows) :
                       /\ grid_search.cv_rows[a].train \subseteq tr
                       /\ grid_search.cv_rows[a].test \subseteq tr
           /\ score_out.shown => score_out.value.rows = te

\* the search was fitted and scored on the split of the 150-row file
C9_Witness ==
    /\ grid_search.fitted
    /\ score_out.shown
    /\ Len(x_iris) = 150
    /\ Len(x_test) = 45 /\ Len(x_train) = 105

\* C10: two completed calls with shuffle=True and the same validator and
\* n_splits (on the same x, y) get the same sequence of (training, test)
\* index sets, whatever ran in between.
C10_SameFolds ==
    \A i, j \in CompletedCalls :
       /\ calls[i].args.shuffle = "True"
       /\ calls[j].args.shuffle = "True"
       /\ calls[i].args.validator = calls[j].args.validator
       /\ calls[i].args.n_splits = calls[j].args.n_splits
       => calls[i].folds = calls[j].folds

\* the same shuffled call made twice
C10_Witness ==
    \E i, j \in CompletedCalls :
       /\ i < j
       /\ calls[i].args = calls[j].args
       /\ calls[i].args.shuffle = "True"
       /\ Len(y_iris) >= 3

====
